---- MODULE Spec2Model ----
(***************************************************************************)
(* A model of spg (src/spg.c): the Input decoder, the Buffer of wrapped    *)
(* Lines, the Window operations, Reflow and Search.                        *)
(*                                                                         *)
(* A Line is the sequence of the Runes stored in its slots before the      *)
(* first RUNE_EOF; slot j (0-based) of a Line reads as Slot(buf, i, j).    *)
(* Bytes and Runes are integers.  size_t arithmetic is modelled on the     *)
(* naturals; the two places where the code computes row - 1 on a size_t    *)
(* that may be 0 are modelled by their wrapped meaning.                    *)
(***************************************************************************)
EXTENDS Integers, Sequences, FiniteSets, TLC

\* ------------------------------------------------------------------ bounds
MaxRows == 2
MaxCols == 2
MaxInput == 3
MaxScroll == 2
MaxNeedle == 2
MaxLines == 4
MaxBytes == 4
MaxQuery == 2

\* ------------------------------------------------------- program constants
TABWIDTH == 8
RUNE_EOF == -1
RUNE_INVALID == 65533
RUNE_INCOMPLETE == -2
RUNE_MAX == 1114111
BUFCAP == 128
INBUFLEN == 4

NL == 10
TAB == 9
SLASH == 47
QUESTION == 63
KEY_BACKSPACE == 127
KEY_ESCAPE == 27
KEY_RETURN == 10
PROMPTCAP == 128

\* The bytes the input stream is drawn from: 'a', 'b', newline.
InputBytes == {97, 98, NL}
\* The Runes a search needle is drawn from.
NeedleRunes == {97, 98}

Min(x, y) == IF x > y THEN y ELSE x

RECURSIVE SeqsUpTo(_, _)
SeqsUpTo(S, n) ==
    IF n = 0 THEN {<<>>}
    ELSE LET P == SeqsUpTo(S, n - 1)
         IN P \cup {Append(q, x) : q \in {p \in P : Len(p) = n - 1}, x \in S}

RECURSIVE Flatten(_)
Flatten(ls) == IF ls = <<>> THEN <<>> ELSE Head(ls) \o Flatten(Tail(ls))

\* ------------------------------------------------------------ pure helpers
\* iscntrl() in the "C" locale, defined for 0..255.  The streams of Spec,
\* SpecScroll and SpecFrame hold ASCII only; for a Rune above 255 the call
\* is undefined (see printwidths).
iscntrl(r) == (r >= 0 /\ r <= 31) \/ r = 127

nexttabstop(col) == ((col + TABWIDTH) \div TABWIDTH) * TABWIDTH

printwidth(r) ==
    IF iscntrl(r) THEN 2
    ELSE IF r = NL \/ r = TAB THEN 0
    ELSE 1

\* utfcont without the test for the surrogate range
RECURSIVE utfcont_nosurr(_, _, _, _)
utfcont_nosurr(s, i, bytes, got) ==
    IF i > bytes THEN [r |-> got, bytes |-> bytes]
    ELSE IF s[i] >= 128 /\ s[i] <= 191
         THEN utfcont_nosurr(s, i + 1, bytes, got * 64 + (s[i] % 64))
         ELSE [r |-> RUNE_INVALID, bytes |-> 1]

\* What printwidth(r) can return: for a Rune above 255 iscntrl(r) is called
\* outside its domain and may answer either way.
printwidths(r) == IF r > 255 THEN {1, 2} ELSE {printwidth(r)}

\* utfdecode(s, len, &r): s is the sequence of the len bytes available.
RECURSIVE utfcont(_, _, _, _)
utfcont(s, i, bytes, got) ==
    IF i > bytes THEN
        IF got >= 55296 /\ got <= 57343
        THEN [r |-> RUNE_INVALID, bytes |-> 1]
        ELSE [r |-> got, bytes |-> bytes]
    ELSE IF s[i] >= 128 /\ s[i] <= 191
         THEN utfcont(s, i + 1, bytes, got * 64 + (s[i] % 64))
         ELSE [r |-> RUNE_INVALID, bytes |-> 1]

utfdecode(s) ==
    IF Len(s) < 1 THEN [r |-> 0, bytes |-> 0]
    ELSE IF s[1] < 128 THEN [r |-> s[1], bytes |-> 1]
    ELSE LET lead == IF s[1] >= 240 /\ s[1] <= 247 THEN [got |-> s[1] % 8, bytes |-> 4]
                     ELSE IF s[1] >= 224 /\ s[1] <= 239 THEN [got |-> s[1] % 16, bytes |-> 3]
                     ELSE IF s[1] >= 192 /\ s[1] <= 223 THEN [got |-> s[1] % 32, bytes |-> 2]
                     ELSE [got |-> RUNE_INVALID, bytes |-> 1]
         IN IF lead.bytes = 1 THEN [r |-> RUNE_INVALID, bytes |-> 1]
            ELSE IF lead.bytes > Len(s) THEN [r |-> RUNE_INVALID, bytes |-> 1]
            ELSE utfcont(s, 2, lead.bytes, lead.got)

\* utfencode whose three-byte form keeps 5 bits, not 6, in its middle byte
utfencode_short(r) ==
    IF r < 0 \/ r > RUNE_MAX THEN <<>>
    ELSE IF r <= 127 THEN <<r>>
    ELSE IF r <= 2047 THEN <<192 + ((r \div 64) % 32), 128 + (r % 64)>>
    ELSE IF r <= 65535
         THEN <<224 + ((r \div 4096) % 16), 128 + ((r \div 64) % 32), 128 + (r % 64)>>
    ELSE <<240 + ((r \div 262144) % 8), 128 + ((r \div 4096) % 64),
           128 + ((r \div 64) % 64), 128 + (r % 64)>>

\* utfencode(s, r): the bytes written to s (none for r outside 0..0x10FFFF);
\* x >> k is x \div 2^k, x & (2^k - 1) is x % 2^k, and the bytes are read as
\* 0..255
utfencode(r) ==
    IF r < 0 \/ r > RUNE_MAX THEN <<>>
    ELSE IF r <= 127 THEN <<r>>
    ELSE IF r <= 2047 THEN <<192 + ((r \div 64) % 32), 128 + (r % 64)>>
    ELSE IF r <= 65535
         THEN <<224 + ((r \div 4096) % 16), 128 + ((r \div 64) % 64), 128 + (r % 64)>>
    ELSE <<240 + ((r \div 262144) % 8), 128 + ((r \div 4096) % 64),
           128 + ((r \div 64) % 64), 128 + (r % 64)>>

utfpeeklen(c) ==
    IF c >= 240 /\ c <= 247 THEN 4
    ELSE IF c >= 224 /\ c <= 239 THEN 3
    ELSE IF c >= 192 /\ c <= 223 THEN 2
    ELSE 1

\* -------------------------------------------------------------------- Input
inputnew(file) == [file |-> file, feof |-> FALSE, buf |-> <<>>, unread |-> RUNE_EOF]

inputatend(in) == Len(in.buf) = 0 /\ in.unread = RUNE_EOF /\ in.feof

inputungetrune(in, r) == [in EXCEPT !.unread = r]

\* The fgetc loop of inputgetrune: the lookahead queue takes bytes until it
\* holds INBUFLEN of them or fgetc reports EOF (which sets the stream's
\* end-of-file indicator).
inputfill(in) ==
    LET k == Min(INBUFLEN - Len(in.buf), Len(in.file))
    IN [in EXCEPT !.buf = @ \o SubSeq(in.file, 1, k),
                  !.file = SubSeq(@, k + 1, Len(@)),
                  !.feof = @ \/ Len(in.buf) + k < INBUFLEN]

\* The end of inputgetrune: d is what utfdecode made of the queue.
inputtake(in, d) ==
    [r |-> d.r, in |-> [in EXCEPT !.buf = SubSeq(@, d.bytes + 1, Len(@))]]

\* The part of inputgetrune that reads the stream, on the filled queue.
inputdecode(in) ==
    IF Len(in.buf) = 0 THEN [r |-> RUNE_EOF, in |-> in]
    ELSE inputtake(in, utfdecode(in.buf))

\* returns [r, in]
inputgetrune(in) ==
    IF in.unread # RUNE_EOF
    THEN [r |-> in.unread, in |-> [in EXCEPT !.unread = RUNE_EOF]]
    ELSE inputdecode(inputfill(in))

\* ------------------------------------------------------------------- Buffer
bufnew(width) == [lines |-> <<>>, linecap |-> width + 2, cap |-> BUFCAP]

bufgrow(buf) == [buf EXCEPT !.cap = @ * 2]

bufnewline(buf) ==
    LET g == IF Len(buf.lines) = buf.cap THEN bufgrow(buf) ELSE buf
    IN [g EXCEPT !.lines = Append(@, <<>>)]

linelen(line) == Len(line)

\* buf->lines[i][j] for 0 <= i < len and 0 <= j < linecap
Slot(buf, i, j) ==
    LET l == buf.lines[i + 1]
    IN IF j < Len(l) THEN l[j + 1] ELSE RUNE_EOF

\* The while loop of buflookingat; k Runes of s are matched so far.
\* returns 1 (true) or 0 (false), as the C function does
RECURSIVE lookingatloop(_, _, _, _, _)
lookingatloop(buf, s, k, row, col) ==
    IF k >= Len(s) THEN 1
    ELSE IF Slot(buf, row, col) # s[k + 1] THEN 0
    ELSE IF Slot(buf, row, col + 1) = RUNE_EOF
         THEN IF row + 1 >= Len(buf.lines) THEN 0
              ELSE lookingatloop(buf, s, k + 1, row + 1, 0)
         ELSE lookingatloop(buf, s, k + 1, row, col + 1)

buflookingat(buf, s, row, col) ==
    IF row >= Len(buf.lines) \/ col >= buf.linecap THEN 0
    ELSE lookingatloop(buf, s, 0, row, col)

\* reflowrune where a Rune that forces a wrap is not stored
reflowrune_drop(st, r, width) ==
    LET w == printwidth(r)
        j == IF st.new.lines = <<>> THEN 0
             ELSE Len(st.new.lines[Len(st.new.lines)])
        brk == st.needline \/ st.c + w > width \/ j >= st.new.linecap - 1
        nb == IF brk THEN bufnewline(st.new) ELSE st.new
        c0 == IF brk THEN 0 ELSE st.c
    IN [new |-> IF brk /\ ~st.needline THEN st.new
                ELSE [nb EXCEPT !.lines[Len(nb.lines)] = Append(@, r)],
        c |-> IF r = NL THEN c0
              ELSE IF r = TAB THEN nexttabstop(c0)
              ELSE c0 + w,
        needline |-> (r = NL)]

\* One Rune r of bufreflow's inner loop: st = [new, c, needline]; j of the
\* code is the length of the last new Line.
reflowrune(st, r, width) ==
    LET w == printwidth(r)
        j == IF st.new.lines = <<>> THEN 0
             ELSE Len(st.new.lines[Len(st.new.lines)])
        brk == st.needline \/ st.c + w > width \/ j >= st.new.linecap - 1
        nb == IF brk THEN bufnewline(st.new) ELSE st.new
        c0 == IF brk THEN 0 ELSE st.c
    IN [new |-> [nb EXCEPT !.lines[Len(nb.lines)] = Append(@, r)],
        c |-> IF r = NL THEN c0
              ELSE IF r = TAB THEN nexttabstop(c0)
              ELSE c0 + w,
        needline |-> (r = NL)]

\* The inner loop of bufreflow over the Runes of one old Line, from index k.
RECURSIVE reflowline(_, _, _, _)
reflowline(st, oldl, k, width) ==
    IF k > Len(oldl) THEN st
    ELSE reflowline(reflowrune(st, oldl[k], width), oldl, k + 1, width)

\* The outer loop of bufreflow over the old Lines, from index i (0-based).
\* row - 1 is computed on a size_t: for row = 0 it is SIZE_MAX, which no i
\* equals and which every i is <=.
RECURSIVE reflowlines(_, _, _, _, _, _)
\* The end of one round of the outer loop: st is the state after old Line i.
reflowmark(st, newrow, buf, i, width, row) ==
    reflowlines(st,
                IF row # 0 /\ i = row - 1 THEN Len(st.new.lines) ELSE newrow,
                buf, i + 1, width, row)

reflowlines(st, newrow, buf, i, width, row) ==
    IF i >= Len(buf.lines)
    THEN [new |-> st.new,
          newrow |-> IF row = 0 \/ i <= row - 1 THEN Len(st.new.lines) ELSE newrow]
    ELSE reflowmark(reflowline(st, buf.lines[i + 1], 1, width),
                    newrow, buf, i, width, row)

\* returns [new, newrow]; *newrow aliases win->row, so it starts as row
bufreflow(buf, width, row) ==
    reflowlines([new |-> bufnew(width), c |-> 0, needline |-> TRUE],
                row, buf, 0, width, row)

\* The for loop of bufsearchforwards.  returns [ret, found]; ret = 0: found
RECURSIVE searchfwdloop(_, _, _, _)
searchfwdloop(buf, s, i, j) ==
    IF Slot(buf, i, j) = s[1] /\ buflookingat(buf, s, i, j) = 1
    THEN [ret |-> 0, found |-> i]
    ELSE IF Slot(buf, i, j + 1) = RUNE_EOF
         THEN IF i + 1 = Len(buf.lines) THEN [ret |-> 1, found |-> 0]
              ELSE searchfwdloop(buf, s, i + 1, 0)
         ELSE searchfwdloop(buf, s, i, j + 1)

bufsearchforwards(buf, s, row) ==
    IF Len(s) = 0 \/ row + 1 >= Len(buf.lines) THEN [ret |-> 1, found |-> 0]
    ELSE searchfwdloop(buf, s, row + 1, 0)

\* The for loop of bufsearchbackwards.  returns [ret, found, oob]
RECURSIVE searchbwdloop(_, _, _, _)
searchbwdloop(buf, s, i, j) ==
    IF Slot(buf, i, j) = s[1] /\ buflookingat(buf, s, i, j) = 1
    THEN [ret |-> 0, found |-> i, oob |-> FALSE]
    ELSE IF j = 0
         THEN IF i = 0 THEN [ret |-> 1, found |-> 0, oob |-> FALSE]
              ELSE searchbwdloop(buf, s, i - 1, linelen(buf.lines[i]))
         ELSE searchbwdloop(buf, s, i, j - 1)

\* returns [ret, found, oob]; oob: with one Line in the Buffer, row is set
\* to 0 and i = row - 1 wraps, so that buf->lines[i] lies outside the array
bufsearchbackwards(buf, s, row) ==
    IF Len(s) = 0 \/ Len(buf.lines) = 0 \/ row = 0
    THEN [ret |-> 1, found |-> 0, oob |-> FALSE]
    ELSE LET r == IF row >= Len(buf.lines) - 1 THEN Len(buf.lines) - 1 ELSE row
         IN IF r = 0 THEN [ret |-> 1, found |-> 0, oob |-> TRUE]
            ELSE searchbwdloop(buf, s, r - 1, linelen(buf.lines[r]))

\* ------------------------------------------------------------------- Window
winnew(rows, cols) == [buf |-> bufnew(cols), rows |-> rows, cols |-> cols, row |-> 0]

\* The for loop of wingetline: line is the new Line so far (i = Len(line)).
\* returns [line, in]
RECURSIVE getlineloop(_, _, _, _, _)
\* The body of the loop: g is what inputgetrune returned.
getlinerune(line, w, g, linecap, cols) ==
    IF g.r = RUNE_EOF THEN [line |-> line, in |-> g.in]
    ELSE IF w + printwidth(g.r) > cols
         THEN [line |-> line, in |-> inputungetrune(g.in, g.r)]
    ELSE IF g.r = NL THEN [line |-> Append(line, g.r), in |-> g.in]
    ELSE getlineloop(Append(line, g.r),
                     IF g.r = TAB THEN nexttabstop(w) ELSE w + printwidth(g.r),
                     g.in, linecap, cols)

\* getlineloop that stops one slot later, at i < linecap
getlineloop_full(line, w, in, linecap, cols) ==
    IF Len(line) >= linecap THEN [line |-> line, in |-> in]
    ELSE getlinerune(line, w, inputgetrune(in), linecap, cols)

getlineloop(line, w, in, linecap, cols) ==
    IF Len(line) >= linecap - 1 THEN [line |-> line, in |-> in]
    ELSE getlinerune(line, w, inputgetrune(in), linecap, cols)

\* bufputline that stores the Runes in the first Line of the Buffer as well
bufputline_first(buf, line) ==
    [buf EXCEPT !.lines[Len(buf.lines)] = line, !.lines[1] = line]

\* line[i] = r for the Runes the for loop stored in the new (last) Line
bufputline(buf, line) == [buf EXCEPT !.lines[Len(buf.lines)] = line]

\* The Window with the Line l.line that the for loop filled appended.
getlineput(win, l) ==
    [ret |-> 0,
     win |-> [win EXCEPT !.buf = bufputline(bufnewline(@), l.line)],
     in |-> l.in]

\* returns [ret, win, in]; ret = 0: a Line was appended, 1: no more input
wingetline(win, in) ==
    IF inputatend(in) THEN [ret |-> 1, win |-> win, in |-> in]
    ELSE getlineput(win, getlineloop(<<>>, 0, in, win.buf.linecap, win.cols))

\* The while loop of winfill.  returns [win, in]
RECURSIVE winfillloop(_, _, _)
winfillstep(g, newrows) ==
    IF g.ret = 1 THEN [win |-> [g.win EXCEPT !.row = @ + newrows], in |-> g.in]
    ELSE winfillloop(g.win, g.in, newrows + 1)

winfillloop(win, in, newrows) ==
    IF Len(win.buf.lines) < win.rows
    THEN winfillstep(wingetline(win, in), newrows)
    ELSE [win |-> [win EXCEPT !.row = @ + newrows], in |-> in]

winfill(win, in) == winfillloop(win, in, 0)

\* The end of winresize: rf is what bufreflow returned.
resizefill(win, rows, rf, in) ==
    winfill([win EXCEPT !.rows = rows, !.buf = rf.new, !.row = rf.newrow], in)

winresize(win, rows, cols, in) ==
    resizefill(win, rows, bufreflow(win.buf, cols, win.row), in)

\* A call of wingetline that appends a Line and leaves the Input as it was
\* repeats identically for ever: the loops that end only on "no more input"
\* then never return (hung).
\* The while loop of winscrollbot.  returns [hung, win, in]
RECURSIVE winscrollbotloop(_, _)
winscrollbotstep(in, g) ==
    IF g.ret = 1 THEN [hung |-> FALSE, win |-> g.win, in |-> g.in]
    ELSE IF g.in = in THEN [hung |-> TRUE, win |-> g.win, in |-> g.in]
    ELSE winscrollbotloop(g.win, g.in)

winscrollbotloop(win, in) == winscrollbotstep(in, wingetline(win, in))

\* The end of winscrollbot: d is the state the loop left.
winscrollbotrow(d) ==
    IF d.hung THEN d
    ELSE [hung |-> FALSE, win |-> [d.win EXCEPT !.row = Len(d.win.buf.lines)], in |-> d.in]

winscrollbot(win, in) == winscrollbotrow(winscrollbotloop(win, in))

\* winscrolldownloop with <= for <: materializes one Line too many
RECURSIVE winscrolldownloop_extra(_, _, _)
winscrolldownstep_extra(g, lines) ==
    IF g.ret = 1 THEN [win |-> g.win, in |-> g.in]
    ELSE winscrolldownloop_extra(g.win, g.in, lines)

winscrolldownloop_extra(win, in, lines) ==
    IF Len(win.buf.lines) <= win.row + lines
    THEN winscrolldownstep_extra(wingetline(win, in), lines)
    ELSE [win |-> win, in |-> in]

\* The while loop of winscrolldown.  returns [win, in]
RECURSIVE winscrolldownloop(_, _, _)
winscrolldownstep(g, lines) ==
    IF g.ret = 1 THEN [win |-> g.win, in |-> g.in]
    ELSE winscrolldownloop(g.win, g.in, lines)

winscrolldownloop(win, in, lines) ==
    IF Len(win.buf.lines) < win.row + lines
    THEN winscrolldownstep(wingetline(win, in), lines)
    ELSE [win |-> win, in |-> in]

\* winscrolldownrow without the final clamp of row to the Buffer length
winscrolldownrow_noclamp(d, lines) ==
    [win |-> [d.win EXCEPT !.row = @ + lines], in |-> d.in]

\* The end of winscrolldown: d is the state the loop left.
winscrolldownrow(d, lines) ==
    [win |-> [d.win EXCEPT !.row = IF @ + lines > Len(d.win.buf.lines)
                                   THEN Len(d.win.buf.lines) ELSE @ + lines],
     in |-> d.in]

winscrolldown(win, lines, in) ==
    winscrolldownrow(winscrolldownloop(win, in, lines), lines)

\* winscrolltop that puts row at the first Line
winscrolltop_zero(win) == [win EXCEPT !.row = 0]

winscrolltop(win) == [win EXCEPT !.row = Min(win.rows, Len(win.buf.lines))]

\* winscrollup that moves one Line further than asked
winscrollup_more(win, lines) ==
    LET r == IF lines + 1 > win.row THEN 0 ELSE win.row - lines - 1
    IN [win EXCEPT !.row = IF r < win.rows THEN Min(win.rows, Len(win.buf.lines)) ELSE r]

winscrollup(win, lines) ==
    LET r == IF lines > win.row THEN 0 ELSE win.row - lines
    IN [win EXCEPT !.row = IF r < win.rows THEN Min(win.rows, Len(win.buf.lines)) ELSE r]

\* The end of winsearchbackwards: f is what bufsearchbackwards returned.
searchbwdrow(win, f) ==
    IF f.ret = 1 THEN [win |-> win, oob |-> f.oob]
    ELSE [win |-> [win EXCEPT !.row = Min(f.found + win.rows, Len(win.buf.lines))],
          oob |-> FALSE]

\* returns [win, oob]
winsearchbackwards(win, s) ==
    IF win.row = 0 \/ Len(win.buf.lines) = 0 \/ win.row <= win.rows
    THEN [win |-> win, oob |-> FALSE]
    ELSE searchbwdrow(win, bufsearchbackwards(win.buf, s, win.row - win.rows))

\* The while loop of winsearchforwards.  returns [hung, win, in]
RECURSIVE winsearchfwdloop(_, _, _, _)
\* The body of the loop: g is what wingetline returned, row is len - 1.
winsearchfwdpull(in, s, row, g) ==
    IF g.ret = 1 THEN [hung |-> FALSE, win |-> g.win, in |-> g.in]
    ELSE IF g.in = in THEN [hung |-> TRUE, win |-> g.win, in |-> g.in]
    ELSE winsearchfwdloop(g.win, g.in, s, row)

\* The loop condition: f is what bufsearchforwards returned.
winsearchfwdtest(win, in, s, f) ==
    IF f.ret = 0
    THEN [hung |-> FALSE, win |-> [win EXCEPT !.row = f.found + 1], in |-> in]
    ELSE winsearchfwdpull(in, s, Len(win.buf.lines) - 1, wingetline(win, in))

winsearchfwdloop(win, in, s, row) ==
    winsearchfwdtest(win, in, s, bufsearchforwards(win.buf, s, row))

winsearchforwards(win, s, in) ==
    IF win.row = 0 \/ Len(win.buf.lines) = 0
    THEN [hung |-> FALSE, win |-> win, in |-> in]
    ELSE winsearchfwdloop(win, in, s, win.row - 1)

uirefresh(win) ==
    IF win.row < win.rows
    THEN [win EXCEPT !.row = Min(win.rows, Len(win.buf.lines))]
    ELSE win

\* ------------------------------------------------------------------- Prompt
\* A size_t that has wrapped below 0 is written as the negative number it
\* wrapped to: -k stands for SIZE_MAX + 1 - k; sums and differences of the
\* written values are then the written values of the wrapped sums and
\* differences.  gt and ge compare two such values as the unsigned numbers
\* they stand for.
gt(a, b) == IF (a < 0) = (b < 0) THEN a > b ELSE a < 0

ge(a, b) == a = b \/ gt(a, b)

promptnew(prompt, action) ==
    [text |-> <<>>, buf |-> <<>>, cap |-> PROMPTCAP, col |-> 0,
     active |-> FALSE, prompt |-> prompt, action |-> action]

\* The branch of promptputchar that decodes: b is the byte queue with c
\* appended, d what utfdecode made of it.
promptappend(p, b, d) ==
    [r |-> d.r,
     p |-> [p EXCEPT !.buf = SubSeq(b, d.bytes + 1, Len(b)),
                     !.cap = IF Len(p.text) = p.cap THEN p.cap * 2 ELSE p.cap,
                     !.text = Append(@, d.r)]]

\* promptputchar after p->buf[p->buflen++] = c: b is the byte queue.
promptdecode(p, b) ==
    IF utfpeeklen(b[1]) >= Len(b) THEN promptappend(p, b, utfdecode(b))
    ELSE [r |-> RUNE_INCOMPLETE, p |-> [p EXCEPT !.buf = b]]

\* returns [r, p]
promptputchar(p, c) == promptdecode(p, Append(p.buf, c))

\* ----------------------------------------------------------------------- ui
\* uiprint(r, col): the column after r is printed at col; cols is win->cols
\* and pw what printwidth(r) returns
uiprinttab(w, col, cols) == col + (IF ge(col + w, cols) THEN cols - col - 1 ELSE w)

uiprint(r, col, cols, pw) ==
    IF r = NL THEN col
    ELSE IF r = TAB THEN uiprinttab(nexttabstop(col) - col, col, cols)
    ELSE (IF gt(col + pw, cols) THEN 0 ELSE col) + pw

\* p->prompt is '/' or '?'
uipromptopen(p, cols) ==
    [p EXCEPT !.text = <<>>, !.col = uiprint(p.prompt, 0, cols, printwidth(p.prompt)),
              !.active = TRUE]

\* promptsearch(a): a.dir is FORWARDS or BACKWARDS
promptsearch(p, dir, cols) ==
    IF dir = "FORWARDS"
    THEN uipromptopen([p EXCEPT !.prompt = SLASH, !.action = "searchforwards"], cols)
    ELSE uipromptopen([p EXCEPT !.prompt = QUESTION, !.action = "searchbackwards"], cols)

\* The KEY_BACKSPACE branch of uipromptkey: printwidth(--p->len)
promptbackspace(p) ==
    IF Len(p.text) > 0
    THEN [p EXCEPT !.col = @ - printwidth(Len(p.text) - 1),
                   !.text = SubSeq(@, 1, Len(@) - 1)]
    ELSE p

\* The last branch of uipromptkey: g is what promptputchar returned.
promptecho(g, cols, pw) ==
    IF g.r # RUNE_INCOMPLETE THEN [g.p EXCEPT !.col = uiprint(g.r, @, cols, pw)]
    ELSE g.p

\* searchforwards(a) and searchbackwards(a): the search, then uirefresh();
\* d is what the search returned
searchrefresh(d) ==
    [hung |-> d.hung, win |-> IF d.hung THEN d.win ELSE uirefresh(d.win), in |-> d.in]

searchforwards(w, p, i) == searchrefresh(winsearchforwards(w, p.text, i))

searchbackrefresh(d) == [win |-> uirefresh(d.win), oob |-> d.oob]

searchbackwards(w, p) == searchbackrefresh(winsearchbackwards(w, p.text))

\* ------------------------------------------------------------ state machine
\* win, in: the Window (with its Buffer) and the Input
\* pc:      "ready" between operations; "winscrollbot" or
\*          "winsearchforwards" inside the loop of that function when the
\*          loop never returns; "crashed" after a fault on an out-of-bounds
\*          read
\* last:    a history of the operation performed last, kept by SpecScroll
\*          only: its name op, its scroll amount n (0 for the operations
\*          that take none), and from: the row a winscrollup(n) started
\*          from, kept by a winscrolldown(n) that comes right after it; -1
\*          for every other operation
\* search:  the Prompt of the search query
\* winch:   the flag the SIGWINCH handler sets (sig_atomic_t), 0 or 1
\* main:    the main loop, followed by SpecLoop only: at, the place it is at
\*          ("uiresize": about to call uiresize; "uigetkey": in the fgetc
\*          of uigetkey; "eintr": fgetc has failed with EINTR; "key":
\*          uigetkey has returned the key in key; "done": after quit),
\*          key, the key being dispatched (0 when there is none), and a
\*          history: unserved = 1 when a SIGWINCH has been delivered and no
\*          uiresize has started since, and late, the value unserved had
\*          when the key being dispatched was read
VARIABLES win, in, pc, last, search, winch, main

vars == <<win, in, pc, last, search, winch, main>>

Scrolls == 0..MaxScroll
Needles == SeqsUpTo(NeedleRunes, MaxNeedle)
Files == SeqsUpTo(InputBytes, MaxInput)

Op(name, n, from) == [op |-> name, n |-> n, from |-> from]

\* main before its first uiresize(): no key read, no signal delivered
MainAt(at) == [at |-> at, key |-> 0, unserved |-> 0, late |-> 0]

Init ==
    /\ \E rows \in 0..MaxRows, cols \in 0..MaxCols : win = winnew(rows, cols)
    /\ \E f \in Files : in = inputnew(f)
    /\ pc = "ready"
    /\ last = Op("winnew", 0, -1)
    /\ search = promptnew(SLASH, "searchforwards")
    /\ winch = 0
    /\ main = MainAt("uiresize")

\* The Window and the Input become those of d, the result of an operation;
\* the Buffer stays within MaxLines.
Becomes(d) ==
    /\ Len(d.win.buf.lines) <= MaxLines
    /\ win' = d.win
    /\ in' = d.in

\* As Becomes, for the loops of function f that may never return.
BecomesOrHangs(d, f) ==
    /\ Becomes(d)
    /\ pc' = IF d.hung THEN f ELSE "ready"

\* Reading buf->lines[-1] is undefined: the process faults, or the search
\* goes on over whatever lies below the array; any row it could report is
\* far above the Buffer length, so that MIN() leaves win->row as it was.
BecomesOrFaults(d) ==
    /\ win' = d.win
    /\ pc' \in (IF d.oob THEN {"ready", "crashed"} ELSE {"ready"})

WinFill ==
    /\ pc = "ready"
    /\ Becomes(winfill(win, in))
    /\ UNCHANGED pc

WinScrollDown(n) ==
    /\ pc = "ready"
    /\ Becomes(winscrolldown(win, n, in))
    /\ UNCHANGED pc

WinScrollUp(n) ==
    /\ pc = "ready"
    /\ win' = winscrollup(win, n)
    /\ UNCHANGED <<in, pc>>

WinScrollTop ==
    /\ pc = "ready"
    /\ win' = winscrolltop(win)
    /\ UNCHANGED <<in, pc>>

WinScrollBot ==
    /\ pc = "ready"
    /\ BecomesOrHangs(winscrollbot(win, in), "winscrollbot")

WinSearchForwards(s) ==
    /\ pc = "ready"
    /\ BecomesOrHangs(winsearchforwards(win, s, in), "winsearchforwards")

WinSearchBackwards(s) ==
    /\ pc = "ready"
    /\ BecomesOrFaults(winsearchbackwards(win, s))
    /\ UNCHANGED in

WinResize(rows, cols) ==
    /\ pc = "ready"
    /\ Becomes(winresize(win, rows, cols, in))
    /\ UNCHANGED pc

UiRefresh ==
    /\ pc = "ready"
    /\ win' = uirefresh(win)
    /\ UNCHANGED <<in, pc>>

\* Any sequence of the Window operations, with any arguments.
Operation ==
    \/ WinFill
    \/ \E n \in Scrolls : WinScrollDown(n)
    \/ \E n \in Scrolls : WinScrollUp(n)
    \/ WinScrollTop
    \/ WinScrollBot
    \/ \E s \in Needles : WinSearchForwards(s)
    \/ \E s \in Needles : WinSearchBackwards(s)
    \/ \E rows \in 0..MaxRows, cols \in 0..MaxCols : WinResize(rows, cols)
    \/ UiRefresh

Next == Operation /\ UNCHANGED <<last, search, winch, main>>

Spec == Init /\ [][Next]_vars

\* The scroll operations at a fixed geometry, with the history last.
ScrollFill == WinFill /\ last' = Op("winfill", 0, -1) /\ UNCHANGED <<search, winch, main>>

ScrollDown ==
    \E n \in Scrolls :
        /\ WinScrollDown(n)
        /\ last' = Op("winscrolldown", n,
                      IF last.op = "winscrollup" /\ last.n = n THEN last.from ELSE -1)
        /\ UNCHANGED <<search, winch, main>>

ScrollUp == \E n \in Scrolls : WinScrollUp(n) /\ last' = Op("winscrollup", n, win.row) /\ UNCHANGED <<search, winch, main>>

ScrollTop == WinScrollTop /\ last' = Op("winscrolltop", 0, -1) /\ UNCHANGED <<search, winch, main>>

ScrollBot == WinScrollBot /\ last' = Op("winscrollbot", 0, -1) /\ UNCHANGED <<search, winch, main>>

ScrollRefresh == UiRefresh /\ last' = Op("uirefresh", 0, -1) /\ UNCHANGED <<search, winch, main>>

NextScroll ==
    \/ ScrollFill
    \/ ScrollDown
    \/ ScrollUp
    \/ ScrollTop
    \/ ScrollBot
    \/ ScrollRefresh

SpecScroll == Init /\ [][NextScroll]_vars

\* Every Window operation, with the history last: the name of the operation
\* performed last and, for winsearchforwards, in from the Buffer length it
\* started from (-1 for the others, where it is not recorded).
\* The needles here are the empty one and those of one Rune: what these
\* steps are observed for is the rows and the Lines a search leaves, which a
\* needle decides by the Lines it is found at.
FrameNeedles == {<<>>} \cup {<<r>> : r \in NeedleRunes}

FrameFill == WinFill /\ last' = Op("winfill", 0, -1) /\ UNCHANGED <<search, winch, main>>

FrameScrollDown ==
    \E n \in Scrolls :
        /\ WinScrollDown(n)
        /\ last' = Op("winscrolldown", 0, -1)
        /\ UNCHANGED <<search, winch, main>>

FrameScrollUp ==
    \E n \in Scrolls :
        /\ WinScrollUp(n)
        /\ last' = Op("winscrollup", 0, -1)
        /\ UNCHANGED <<search, winch, main>>

FrameScrollTop ==
    WinScrollTop /\ last' = Op("winscrolltop", 0, -1) /\ UNCHANGED <<search, winch, main>>

FrameScrollBot ==
    WinScrollBot /\ last' = Op("winscrollbot", 0, -1) /\ UNCHANGED <<search, winch, main>>

FrameSearchForwards ==
    \E s \in FrameNeedles :
        /\ WinSearchForwards(s)
        /\ last' = Op("winsearchforwards", 0, Len(win.buf.lines))
        /\ UNCHANGED <<search, winch, main>>

FrameSearchBackwards ==
    \E s \in FrameNeedles :
        /\ WinSearchBackwards(s)
        /\ last' = Op("winsearchbackwards", 0, -1)
        /\ UNCHANGED <<search, winch, main>>

FrameResize ==
    \E rows \in 0..MaxRows, cols \in 0..MaxCols :
        /\ WinResize(rows, cols)
        /\ last' = Op("winresize", 0, -1)
        /\ UNCHANGED <<search, winch, main>>

NextFrame ==
    \/ FrameFill
    \/ FrameScrollDown
    \/ FrameScrollUp
    \/ FrameScrollTop
    \/ FrameScrollBot
    \/ FrameSearchForwards
    \/ FrameSearchBackwards
    \/ FrameResize

SpecFrame == Init /\ [][NextFrame]_vars

\* The decoder alone: a stream holds bytes of every class utfdecode
\* tells apart, or the bytes utfencode writes for one Rune, and is read
\* with inputgetrune up to its end.  Here last holds the Rune that was
\* encoded (n, -1 when the stream was given as bytes) and the Runes that
\* inputgetrune has returned so far (runes).
\* 'a', continuation bytes 80 A0 BF, the leads C3, E0, ED, F0, F4 and the
\* malformed lead F8
Utf8Bytes == {97, 128, 160, 191, 195, 224, 237, 240, 244, 248}
Runes == 0..RUNE_MAX

UtfOp(name, r, runes) == [op |-> name, n |-> r, runes |-> runes]

InitUtf ==
    /\ win = winnew(0, 0)
    /\ pc = "ready"
    /\ search = promptnew(SLASH, "searchforwards")
    /\ winch = 0
    /\ main = MainAt("uiresize")
    /\ \/ \E f \in SeqsUpTo(Utf8Bytes, MaxBytes) :
              in = inputnew(f) /\ last = UtfOp("inputnew", -1, <<>>)
       \/ \E r \in Runes :
              in = inputnew(<<>>) /\ last = UtfOp("rune", r, <<>>)

\* the last of the Runes returned is RUNE_EOF
AtEof(runes) == runes # <<>> /\ runes[Len(runes)] = RUNE_EOF

\* The stream becomes the bytes utfencode writes for the Rune drawn.
UtfEncode ==
    /\ last.op = "rune"
    /\ in' = inputnew(utfencode(last.n))
    /\ last' = UtfOp("utfencode", last.n, <<>>)
    /\ UNCHANGED <<win, pc, search, winch, main>>

\* One call of inputgetrune; the reader stops at RUNE_EOF.
InputGetRune ==
    /\ last.op # "rune"
    /\ ~AtEof(last.runes)
    /\ in' = inputgetrune(in).in
    /\ last' = UtfOp("inputgetrune", last.n, Append(last.runes, inputgetrune(in).r))
    /\ UNCHANGED <<win, pc, search, winch, main>>

NextUtf ==
    \/ UtfEncode
    \/ InputGetRune

SpecUtf == InitUtf /\ [][NextUtf]_vars

\* The main loop with the Prompt: the keys '/', '?' and 'j' while the Prompt
\* is closed, every key while it is open.  Here last holds, after a key that
\* promptputchar took, the length of the query (n) and the column (from)
\* before that key; -1 after every other key.
\* 'a', the two bytes C3 A9 of U+00E9, Backspace, Escape, Return
PromptKeys == {97, 195, 169, KEY_BACKSPACE, KEY_ESCAPE, KEY_RETURN}

\* keys '/' and '?'
PromptSearch(dir) ==
    /\ pc = "ready"
    /\ ~search.active
    /\ search' = promptsearch(search, dir, win.cols)
    /\ last' = Op("promptsearch", 0, -1)
    /\ UNCHANGED <<win, in, pc, winch, main>>

\* key 'j': scrolldown({ .zu = 1 })
KeyScrollDown ==
    /\ pc = "ready"
    /\ ~search.active
    /\ Len(winscrolldown(win, 1, in).win.buf.lines) <= MaxLines
    /\ win' = uirefresh(winscrolldown(win, 1, in).win)
    /\ in' = winscrolldown(win, 1, in).in
    /\ last' = Op("scrolldown", 0, -1)
    /\ UNCHANGED <<pc, search, winch, main>>

PromptReturn ==
    /\ search' = [search EXCEPT !.active = FALSE]
    /\ last' = Op("uipromptkey", 0, -1)
    /\ IF search.action = "searchforwards"
       THEN BecomesOrHangs(searchforwards(win, search, in), "winsearchforwards")
       ELSE BecomesOrFaults(searchbackwards(win, search)) /\ UNCHANGED in

PromptEscape ==
    /\ search' = [search EXCEPT !.text = <<>>, !.col = 0, !.active = FALSE]
    /\ win' = uirefresh(win)
    /\ last' = Op("uipromptkey", 0, -1)
    /\ UNCHANGED <<in, pc>>

PromptBackspace ==
    /\ search' = promptbackspace(search)
    /\ last' = Op("uipromptkey", 0, -1)
    /\ UNCHANGED <<win, in, pc>>

PromptChar(key) ==
    /\ Len(search.text) < MaxQuery
    /\ \E pw \in printwidths(promptputchar(search, key).r) :
           search' = promptecho(promptputchar(search, key), win.cols, pw)
    /\ last' = Op("promptputchar", Len(search.text), search.col)
    /\ UNCHANGED <<win, in, pc>>

\* uipromptkey(search, key), called while search->active
UiPromptKey(key) ==
    /\ pc = "ready"
    /\ search.active
    /\ UNCHANGED <<winch, main>>
    /\ IF key = KEY_RETURN THEN PromptReturn
       ELSE IF key = KEY_ESCAPE THEN PromptEscape
       ELSE IF key = KEY_BACKSPACE THEN PromptBackspace
       ELSE PromptChar(key)

NextPrompt ==
    \/ \E dir \in {"FORWARDS", "BACKWARDS"} : PromptSearch(dir)
    \/ KeyScrollDown
    \/ \E key \in PromptKeys : UiPromptKey(key)

SpecPrompt == Init /\ [][NextPrompt]_vars

\* The main loop with the SIGWINCH handler.  A handler of the key table or
\* of the Prompt is one step; a signal that arrives while it runs is one
\* that arrives before the step, since no handler reads winch.
\* 'j', 'k', '/', Return and 'q'
LoopKeys == {106, 107, SLASH, KEY_RETURN, 113}

\* while the Prompt is open the query is typed with 'j' only
LoopPromptKeys == {106, KEY_RETURN}

\* sigwinch(): the handler runs at any point.  sa_flags = 0: a read of the
\* tty that is blocked fails with EINTR; one that has not entered the
\* system call yet, or has a byte to return, goes on.
SigWinch ==
    /\ pc = "ready"
    /\ main.at # "done"
    /\ winch' = 1
    /\ \E at \in (IF main.at = "uigetkey" THEN {"uigetkey", "eintr"} ELSE {main.at}) :
           main' = [main EXCEPT !.at = at, !.unserved = 1]
    /\ UNCHANGED <<win, in, pc, last, search>>

\* uigetkey: fgetc(tty) returns the byte c
LoopGetKey(c) ==
    /\ pc = "ready"
    /\ main.at = "uigetkey"
    /\ search.active => c \in LoopPromptKeys
    /\ (search.active /\ c # KEY_RETURN) => Len(search.text) < MaxQuery
    /\ main' = [main EXCEPT !.at = "key", !.key = c, !.late = main.unserved]
    /\ UNCHANGED <<win, in, pc, last, search, winch>>

\* uigetkey: fgetc(tty) == EOF with errno == EINTR; with winch set the
\* flag is cleared and KEY_RESIZE goes to main, which calls uiresize();
\* otherwise fgetc is called again
LoopEintr ==
    /\ pc = "ready"
    /\ main.at = "eintr"
    /\ winch' = 0
    /\ main' = [main EXCEPT !.at = IF winch = 1 THEN "uiresize" ELSE "uigetkey"]
    /\ UNCHANGED <<win, in, pc, last, search>>

\* uiresize(): uigetsize, winresize, uirefresh
LoopResize ==
    /\ pc = "ready"
    /\ main.at = "uiresize"
    /\ \E rows \in 0..MaxRows, cols \in 0..MaxCols :
           /\ Len(winresize(win, rows, cols, in).win.buf.lines) <= MaxLines
           /\ win' = uirefresh(winresize(win, rows, cols, in).win)
           /\ in' = winresize(win, rows, cols, in).in
    /\ main' = [main EXCEPT !.at = "uigetkey", !.unserved = 0]
    /\ UNCHANGED <<pc, last, search, winch>>

\* the handlers of keys[] for 'j', 'k', '/' and 'q'
LoopScrollDown ==
    /\ Len(winscrolldown(win, 1, in).win.buf.lines) <= MaxLines
    /\ win' = uirefresh(winscrolldown(win, 1, in).win)
    /\ in' = winscrolldown(win, 1, in).in
    /\ UNCHANGED <<pc, last, search>>

LoopScrollUp ==
    /\ win' = uirefresh(winscrollup(win, 1))
    /\ UNCHANGED <<in, pc, last, search>>

LoopPromptSearch ==
    /\ search' = promptsearch(search, "FORWARDS", win.cols)
    /\ UNCHANGED <<win, in, pc, last>>

LoopQuit == UNCHANGED <<win, in, pc, last, search>>

\* the rest of the loop body of main for the key that uigetkey returned
LoopDispatch ==
    /\ pc = "ready"
    /\ main.at = "key"
    /\ IF search.active
       THEN IF main.key = KEY_RETURN THEN PromptReturn
            ELSE IF main.key = KEY_ESCAPE THEN PromptEscape
            ELSE IF main.key = KEY_BACKSPACE THEN PromptBackspace
            ELSE PromptChar(main.key)
       ELSE IF main.key = 106 THEN LoopScrollDown
       ELSE IF main.key = 107 THEN LoopScrollUp
       ELSE IF main.key = SLASH THEN LoopPromptSearch
       ELSE IF main.key = 113 THEN LoopQuit
       ELSE UNCHANGED <<win, in, pc, last, search>>
    /\ main' = [main EXCEPT !.at = IF ~search.active /\ main.key = 113 THEN "done"
                                   ELSE "uigetkey",
                            !.key = 0, !.late = 0]
    /\ UNCHANGED winch

NextLoop ==
    \/ SigWinch
    \/ \E c \in LoopKeys : LoopGetKey(c)
    \/ LoopEintr
    \/ LoopResize
    \/ LoopDispatch

SpecLoop == Init /\ [][NextLoop]_vars

\* --------------------------------------------------------------- properties
BufLen == Len(win.buf.lines)

\* C1: in every reachable state the Window's row satisfies
\* 0 <= row <= Buffer length.
C1_RowInBuffer == win.row >= 0 /\ win.row <= BufLen

\* the row has reached the end of a Buffer that holds more than a screen
C1_Witness ==
    /\ pc = "ready"
    /\ inputatend(in)
    /\ BufLen > win.rows
    /\ BufLen >= 2
    /\ win.row = BufLen

\* C2: winscrolldown(n) materializes Lines only while Buffer length < row + n
\* and Input is not at end, keeps the Lines that existed, and leaves
\* row = min(old row + n, new Buffer length); with Input exhausted and
\* row = length, row stays equal to length.
C2_ScrollDown ==
    [][\A n \in Scrolls : WinScrollDown(n) =>
          LET len == Len(win.buf.lines)
              len2 == Len(win'.buf.lines)
          IN /\ len2 >= len
             /\ SubSeq(win'.buf.lines, 1, len) = win.buf.lines
             /\ (len >= win.row + n \/ inputatend(in)) => (win'.buf = win.buf /\ in' = in)
             /\ len2 > len => len2 <= win.row + n
             /\ len2 < win.row + n => inputatend(in')
             /\ win'.row = Min(win.row + n, len2)
             /\ (inputatend(in) /\ win.row = len) => win'.row = len]_vars

\* winscrolldown asked for more Lines than the input had left and clamped
C2_Witness ==
    /\ last.op = "winscrolldown"
    /\ last.n = MaxScroll
    /\ win.row = BufLen
    /\ BufLen > win.rows
    /\ win.row < win.rows + last.n
    /\ inputatend(in)

\* C3: for every finite input and every geometry (cols = 0 and cols = 1
\* included) winscrollbot returns, and when it returns the Input is at end
\* and row = Buffer length.
C3_ScrollBotReturns ==
    [][WinScrollBot => /\ pc' = "ready"
                       /\ inputatend(in')
                       /\ win'.row = Len(win'.buf.lines)]_vars

\* C4: after winresize(rows, cols) the wrap width of the Window is cols, and
\* resizing and then materializing the rest of the input gives the Lines
\* that materializing the whole input and then resizing gives.
C4_ResizeWidth ==
    [][\A rows \in 0..MaxRows, cols \in 0..MaxCols :
          WinResize(rows, cols) =>
              LET after == winscrollbotloop(win', in')
                  before == winscrollbotloop(win, in)
              IN /\ win'.cols = cols
                 /\ (~after.hung /\ ~before.hung) =>
                        after.win.buf.lines =
                            winresize(before.win, rows, cols, before.in).win.buf.lines]_vars

\* C5: for the Buffer of every reachable state and every new width (0
\* included) the Lines bufreflow builds hold, in order, exactly the
\* codepoints the old Lines hold.
C5_ReflowContent ==
    \A w \in 0..MaxCols :
        Flatten(bufreflow(win.buf, w, win.row).new.lines) = Flatten(win.buf.lines)

\* a Buffer of several Lines that a resize has reflowed to another width
\* than the one its Lines were read at, and that a further reflow rewraps
C5_Witness ==
    /\ BufLen >= 2
    /\ win.buf.linecap - 2 # win.cols
    /\ \E w \in 0..MaxCols :
           /\ bufreflow(win.buf, w, win.row).new.lines # win.buf.lines
           /\ Len(bufreflow(win.buf, w, win.row).new.lines) >= 2

\* the number of codepoints in the first k of the lines
Codepoints(lines, k) == Len(Flatten(SubSeq(lines, 1, k)))

\* the least k such that the first k of the lines hold at least p codepoints
LeastCover(lines, p) ==
    CHOOSE k \in 0..Len(lines) :
        /\ Codepoints(lines, k) >= p
        /\ \A m \in 0..(k - 1) : Codepoints(lines, m) < p

\* C6: for every new width and every tracked row in [0, length], bufreflow
\* returns as newrow the least k such that the first k new Lines hold every
\* codepoint of the old Lines [0, row); row = 0 maps to newrow = 0.
C6_TrackedRow ==
    \A w \in 0..MaxCols : \A r \in 0..BufLen :
        bufreflow(win.buf, w, r).newrow =
            LeastCover(bufreflow(win.buf, w, r).new.lines, Codepoints(win.buf.lines, r))

\* C7: a Buffer whose Lines wingetline built at width cols, reflowed at the
\* same width with any tracked row in [0, length], keeps its codepoints in
\* order and returns newrow = row.
C7_ReflowIdempotent ==
    \A r \in 0..BufLen :
        /\ Flatten(bufreflow(win.buf, win.cols, r).new.lines) = Flatten(win.buf.lines)
        /\ bufreflow(win.buf, win.cols, r).newrow = r

\* C8 as stated: with the Input exhausted and n <= row, winscrollup(n)
\* followed by winscrolldown(n) restores the original row.
C8_ScrollInverseAlways ==
    [][\A n \in Scrolls :
          (/\ last.op = "winscrollup"
           /\ last.n = n
           /\ n <= last.from
           /\ inputatend(in)
           /\ WinScrollDown(n)) => win'.row = last.from]_vars

\* C8 amended: with the Input exhausted and n <= row, winscrollup(n) followed
\* by winscrolldown(n) restores the original row when row - n >= rows (the
\* scroll up stays below the first screen); otherwise the row ends at
\* min(min(rows, length) + n, length).
C8_ScrollInverse ==
    [][\A n \in Scrolls :
          (/\ last.op = "winscrollup"
           /\ last.n = n
           /\ n <= last.from
           /\ inputatend(in)
           /\ WinScrollDown(n)) =>
              win'.row = IF last.from - n >= win.rows THEN last.from
                         ELSE Min(Min(win.rows, BufLen) + n, BufLen)]_vars

\* a winscrollup(n), n >= 1, that stayed below the first screen, and the
\* winscrolldown(n) after it, on an exhausted Input
C8_Witness ==
    /\ last.op = "winscrolldown"
    /\ last.n >= 1
    /\ last.from >= win.rows + last.n
    /\ win.rows >= 1
    /\ inputatend(in)
    /\ win.row = last.from

\* C9: for every non-empty needle, winsearchforwards on a partly
\* materialized Buffer ends with the row that winsearchforwards ends with
\* from the same row once the whole input is materialized.
C9_SearchForwardsLazy ==
    [][\A s \in Needles :
          (Len(s) > 0 /\ WinSearchForwards(s) /\ pc' = "ready") =>
              LET all == winscrollbotloop(win, in)
              IN ~all.hung =>
                     win'.row = winsearchforwards(all.win, s, all.in).win.row]_vars

\* the needle s is what the lines hold from slot col (0-based) of their
\* first Line on
StartsWith(lines, col, s) ==
    LET rest == SubSeq(Flatten(lines), col + 1, Len(Flatten(lines)))
    IN Len(s) <= Len(rest) /\ SubSeq(rest, 1, Len(s)) = s

\* C10: in a Buffer of non-empty Lines, for every non-empty needle and every
\* position (row, col) that holds a codepoint, buflookingat returns true
\* exactly when the flattened codepoints from (row, col) on begin with the
\* needle.
C10_LookingAt ==
    (\A i \in 1..BufLen : Len(win.buf.lines[i]) > 0) =>
        \A s \in Needles : \A i \in 1..BufLen : \A j \in 1..Len(win.buf.lines[i]) :
            Len(s) > 0 =>
                ((buflookingat(win.buf, s, i - 1, j - 1) = 1)
                    <=> StartsWith(SubSeq(win.buf.lines, i, BufLen), j - 1, s))

\* the rows above fromRow at which buflookingat succeeds at some column
LookingAtRows(buf, s, fromRow) ==
    {i \in 0..(fromRow - 1) :
        \E j \in 0..(buf.linecap - 1) : buflookingat(buf, s, i, j) = 1}

\* C11: for every non-empty needle and every fromRow in [1, length],
\* bufsearchbackwards returns the greatest row below fromRow at which
\* buflookingat succeeds at some column, or not-found when there is none.
\* (Stated where the search reads inside the Buffer; the read of Line -1 is
\* the subject of C14.)
C11_SearchBackwards ==
    \A s \in Needles : \A fromRow \in 1..BufLen :
        (Len(s) > 0 /\ ~bufsearchbackwards(win.buf, s, fromRow).oob) =>
            IF LookingAtRows(win.buf, s, fromRow) = {}
            THEN bufsearchbackwards(win.buf, s, fromRow).ret = 1
            ELSE /\ bufsearchbackwards(win.buf, s, fromRow).ret = 0
                 /\ bufsearchbackwards(win.buf, s, fromRow).found \in
                        LookingAtRows(win.buf, s, fromRow)
                 /\ \A i \in LookingAtRows(win.buf, s, fromRow) :
                        i <= bufsearchbackwards(win.buf, s, fromRow).found

\* C12: for every Rune r in [0, 0x10FFFF] outside [0xD800, 0xDFFF], utfdecode
\* of the bytes utfencode wrote gives r and consumes all of them, and
\* inputgetrune on a stream of these bytes returns r and then end-of-input.
C12_RoundTrip ==
    /\ (last.op = "utfencode" /\ ~(last.n >= 55296 /\ last.n <= 57343)) =>
           /\ Len(in.file) >= 1
           /\ utfdecode(in.file) = [r |-> last.n, bytes |-> Len(in.file)]
    /\ (last.op = "inputgetrune" /\ last.n >= 0
            /\ ~(last.n >= 55296 /\ last.n <= 57343)) =>
           /\ last.runes[1] = last.n
           /\ Len(last.runes) <= 2
           /\ Len(last.runes) = 2 => last.runes[2] = RUNE_EOF
           /\ Len(last.runes) = 1 => inputgetrune(in).r = RUNE_EOF

\* the four bytes of U+10FFFF were read as one Rune, then end-of-input
C12_Witness ==
    /\ last.op = "inputgetrune"
    /\ last.n = RUNE_MAX
    /\ last.runes = <<RUNE_MAX, RUNE_EOF>>

\* the bytes of the stream that no inputgetrune has consumed yet
Unread(i) == i.buf \o i.file

\* byte c is a continuation byte 10xxxxxx
IsCont(c) == c >= 128 /\ c <= 191

\* the value that the payload bits of the first n bytes of s spell
RECURSIVE Payload(_, _)
Payload(s, n) ==
    IF n = 1 THEN s[1] % (IF s[1] >= 240 THEN 8 ELSE IF s[1] >= 224 THEN 16 ELSE 32)
    ELSE Payload(s, n - 1) * 64 + (s[n] % 64)

\* utfdecode answers U+FFFD and consumes one byte
Resyncs(s) == utfdecode(s) = [r |-> RUNE_INVALID, bytes |-> 1]

\* C13: on every non-empty byte sequence utfdecode consumes at least 1 and at
\* most min(4, len) bytes; it answers U+FFFD and consumes exactly 1 byte when
\* the lead byte is 10xxxxxx or 11111xxx, when the sequence is shorter than
\* the lead announces, when a continuation byte is not 10xxxxxx, and when the
\* value decoded is a surrogate.  Every inputgetrune that returns a Rune
\* consumes at least one byte of the stream, and it returns end-of-input
\* exactly when no byte is left: N bytes give at most N Runes.
C13_Resync ==
    [][InputGetRune =>
          LET s == Unread(in)
              n == utfpeeklen(s[1])
          IN /\ (inputgetrune(in).r = RUNE_EOF) <=> (s = <<>>)
             /\ s # <<>> =>
                   /\ utfdecode(s).bytes >= 1
                   /\ utfdecode(s).bytes <= Min(4, Len(s))
                   /\ (IsCont(s[1]) \/ s[1] >= 248) => Resyncs(s)
                   /\ (s[1] >= 192 /\ Len(s) < n) => Resyncs(s)
                   /\ (s[1] >= 192 /\ s[1] < 248 /\ Len(s) >= n
                          /\ \E k \in 2..n : ~IsCont(s[k])) => Resyncs(s)
                   /\ (s[1] >= 192 /\ s[1] < 248 /\ Len(s) >= n
                          /\ (\A k \in 2..n : IsCont(s[k]))
                          /\ Payload(s, n) >= 55296 /\ Payload(s, n) <= 57343) => Resyncs(s)
                   /\ Len(Unread(in')) <= Len(s) - 1
                   /\ Len(Unread(in')) >= Len(s) - 4
                   /\ Len(Unread(in')) = Len(s) - utfdecode(SubSeq(s, 1, Min(4, Len(s)))).bytes]_vars

\* the three bytes ED A0 80, which spell the surrogate U+D800, were read as
\* three U+FFFD, one byte each
C13_Witness ==
    /\ last.op = "inputgetrune"
    /\ last.n = 55296
    /\ last.runes = <<RUNE_INVALID, RUNE_INVALID, RUNE_INVALID, RUNE_EOF>>

\* C14: at every geometry (rows = 0 and cols = 0 included), on every input
\* and after every sequence of operations, no operation reads a Line outside
\* [0, length): winsearchbackwards never makes bufsearchbackwards read the
\* Line at index -1, and no process has faulted on such a read.
C14_ReadsInBounds ==
    /\ pc # "crashed"
    /\ pc = "ready" => \A s \in Needles : ~winsearchbackwards(win, s).oob

\* the Runes promptputchar returns, added to runes, and the Prompt it
\* leaves when the bytes are fed to it one at a time
RECURSIVE promptfeed(_, _, _)
promptfeed(p, bytes, runes) ==
    IF bytes = <<>> THEN [p |-> p, runes |-> runes]
    ELSE promptfeed(promptputchar(p, Head(bytes)).p, Tail(bytes),
                    Append(runes, promptputchar(p, Head(bytes)).r))

\* U+00E9, U+20AC and U+1F600: encodings of 2, 3 and 4 bytes
MultiByteRunes == {233, 8364, 128512}

\* C15: while the Prompt is active, the n bytes of a well-formed encoding
\* (n = 2, 3, 4) fed to promptputchar one at a time give 'incomplete' n - 1
\* times and then the Rune encoded, and the query grows by exactly that
\* Rune, the one inputgetrune reads from these bytes.
C15_PromptAccumulates ==
    search.active =>
        \A r \in MultiByteRunes :
            LET n == Len(utfencode(r))
                f == promptfeed(search, utfencode(r), <<>>)
            IN /\ f.runes = [k \in 1..n |-> IF k < n THEN RUNE_INCOMPLETE ELSE r]
               /\ f.p.text = Append(search.text, r)
               /\ f.p.text = Append(search.text, inputgetrune(inputnew(utfencode(r))).r)

\* C16: Backspace on a non-empty query removes its last Rune and lowers the
\* column by the print width of that Rune; right after a key that added a
\* Rune it restores the query length and the column from before that key;
\* and the column does not go below the column the open Prompt started at.
C16_Backspace ==
    [][(UiPromptKey(KEY_BACKSPACE) /\ search.text # <<>>) =>
          /\ search'.text = SubSeq(search.text, 1, Len(search.text) - 1)
          /\ search'.col = search.col - printwidth(search.text[Len(search.text)])
          /\ (last.op = "promptputchar" /\ Len(search.text) = last.n + 1) =>
                 search'.col = last.from
          /\ ge(search'.col,
                uiprint(search.prompt, 0, win.cols, printwidth(search.prompt)))]_vars

\* C17: winfill, winscrolldown, winscrollbot and winsearchforwards (and the
\* wingetline calls they make) leave every Line that existed unchanged and
\* never shorten the Buffer; winscrollup, winscrolltop and
\* winsearchbackwards leave the Buffer and the Input unchanged.  (In
\* SpecFrame last'.op names the operation a step performs.)
C17_AppendOnly ==
    [][/\ last'.op \in {"winfill", "winscrolldown", "winscrollbot", "winsearchforwards"} =>
              /\ Len(win'.buf.lines) >= Len(win.buf.lines)
              /\ SubSeq(win'.buf.lines, 1, Len(win.buf.lines)) = win.buf.lines
              /\ win'.buf.linecap = win.buf.linecap
       /\ last'.op \in {"winscrollup", "winscrolltop", "winsearchbackwards"} =>
              /\ win'.buf = win.buf
              /\ in' = in]_vars

\* a forward search has pulled Lines from the Input onto a Buffer that held
\* Lines already
C17_Witness ==
    /\ last.op = "winsearchforwards"
    /\ last.from >= 1
    /\ BufLen > last.from
    /\ pc = "ready"

\* the print width C18 gives a Rune
ClaimedWidth(r) ==
    IF r = TAB \/ r = NL THEN 0
    ELSE IF iscntrl(r) THEN 2
    ELSE 1

\* no Line begins with the newline that ends the text of the Line before it
NewlineStays(lines) ==
    \A i \in 2..Len(lines) :
        (lines[i] # <<>> /\ lines[i][1] = NL) =>
            \/ lines[i - 1] = <<>>
            \/ lines[i - 1][Len(lines[i - 1])] = NL

\* C18: printwidth gives 0 for tab and newline, 2 for every other control
\* character and 1 for every other Rune (stated for the Runes the Buffer
\* holds); the Lines wingetline built, and the Lines bufreflow builds from
\* them at any width, keep a newline in the Line of the text it ends.
C18_PrintWidth ==
    /\ \A i \in 1..BufLen : \A j \in 1..Len(win.buf.lines[i]) :
           printwidth(win.buf.lines[i][j]) = ClaimedWidth(win.buf.lines[i][j])
    /\ NewlineStays(win.buf.lines)
    /\ \A w \in 1..MaxCols : NewlineStays(bufreflow(win.buf, w, win.row).new.lines)

\* C19: in every reachable state every Line holds at most
\* capacity - 1 = width + 1 Runes, so that its slot capacity - 1 holds the
\* end-of-line sentinel, also after a resize to another width.
C19_LineCapacity ==
    \A i \in 1..BufLen : Len(win.buf.lines[i]) <= win.buf.linecap - 1

\* after a resize to a narrower width a Line read at the old, wider budget
\* fills every slot but the last
C19_Witness ==
    /\ win.cols > win.buf.linecap - 2
    /\ \E i \in 1..BufLen : Len(win.buf.lines[i]) = win.buf.linecap - 1

\* the row shows a full screen, or the whole Buffer when it is shorter
FullScreen(w) == w.row >= Min(w.rows, Len(w.buf.lines))

\* what winfill leaves: a screenful of Lines, or no more input
Filled(w, i) == Len(w.buf.lines) >= w.rows \/ inputatend(i)

\* C20 as stated: when a Window operation returns, and before any refresh,
\* row >= min(rows, Buffer length): winfill after winnew establishes it, and
\* winfill, winscrolldown, winscrollup, winscrolltop, winscrollbot,
\* winsearchforwards, winsearchbackwards and winresize, started on a filled
\* Window where it holds, return with it.  (In SpecFrame last'.op names the
\* operation a step performs.)
C20_FullScreenAlways ==
    [][pc' = "ready" =>
          /\ (last.op = "winnew" /\ last'.op = "winfill") => FullScreen(win')
          /\ (Filled(win, in) /\ FullScreen(win)) => FullScreen(win')]_vars

\* C20 amended: winfill after winnew establishes row >= min(rows, length);
\* every operation but winresize, started on a filled Window where it holds,
\* returns with it and with the Window filled; winresize returns with the
\* Window filled, possibly with row < min(rows, length) (more rows, or fewer
\* Lines at a wider width), and the uirefresh that follows it in uiresize
\* brings row to min(rows, length) or above.
C20_FullScreen ==
    [][pc' = "ready" =>
          /\ (last.op = "winnew" /\ last'.op = "winfill") => FullScreen(win')
          /\ (Filled(win, in) /\ FullScreen(win)) =>
                 /\ Filled(win', in')
                 /\ last'.op # "winresize" => FullScreen(win')
                 /\ last'.op = "winresize" => FullScreen(uirefresh(win'))]_vars

\* a winresize has returned with row short of a full screen,
\* which the refresh that follows restores
C20_Witness ==
    /\ last.op = "winresize"
    /\ pc = "ready"
    /\ win.row < Min(win.rows, BufLen)
    /\ uirefresh(win).row = Min(win.rows, BufLen)

\* no codepoint remains: pushback empty, lookahead queue empty and the
\* stream has no more bytes (its end read or not)
NoRuneLeft(i) == i.unread = RUNE_EOF /\ Len(i.buf) = 0 /\ i.file = <<>>

\* g is what wingetline returned for the Window w and the Input i
GetLineNotEmpty(w, i, g) ==
    /\ g.ret = 0 =>
           /\ Len(g.win.buf.lines) = Len(w.buf.lines) + 1
           /\ Len(g.win.buf.lines[Len(g.win.buf.lines)]) >= 1
    /\ NoRuneLeft(i) =>
           /\ g.ret = 1
           /\ Len(g.win.buf.lines) = Len(w.buf.lines)

\* C21: in every reachable state a call of wingetline that reports
\* 'produced' has appended a Line of at least one Rune, and a call with no
\* codepoint left reports 'no more input' and leaves the Buffer length as it
\* was.
C21_NoEmptyLine ==
    pc = "ready" => GetLineNotEmpty(win, in, wingetline(win, in))

\* C22: a key that uigetkey read after a SIGWINCH was delivered is not
\* dispatched before a uiresize has started: when the loop body runs for a
\* key, no notification was outstanding when that key was read.
C22_ResizeFirst ==
    [][(main.at = "key" /\ main'.at # "key") => main.late = 0]_vars

====
